---- MODULE Spec2Model ----
(***************************************************************************)
(* WebsiteChecker (src/WebsiteChecker/src/main.rs): monitor_websites       *)
(* drains a mutex-protected VecDeque of URLs with worker_num threads; each *)
(* worker retries website_checker up to retries + 1 times and sends one    *)
(* WebsiteStatus per dequeued URL over an mpsc channel; the dispatcher     *)
(* joins every worker, drops its sender and collects the channel.          *)
(*                                                                         *)
(* Threads are modelled at the granularity of their shared-memory steps:   *)
(* lock, pop_front (+ guard drop), the retry loop (thread-local), send,    *)
(* thread termination.  A worker between pop_front and send has its        *)
(* requests in flight.  The wall-clock fields of WebsiteStatus             *)
(* (response_time, timestamp) are not modelled.                            *)
(***************************************************************************)
EXTENDS Integers, Sequences, FiniteSets, TLC

\* ---- bounds of the model ------------------------------------------------
MaxUrls == 2
MaxWorkers == 2
MaxRetries == 1
MaxCrashes == 1   \* worker panics injected in one run of the fault model
MaxHeaders == 2   \* headers of a probed response

URLS == {"a", "b"}

\* ---- Option<T> ------------------------------------------------------------
None == <<>>
Some(x) == <<x>>
IsSome(o) == o # <<>>
Unwrap(o) == o[1]

\* ---- strings as character sequences (header names and values) -----------
UpperToLower ==
  ("A" :> "a") @@ ("B" :> "b") @@ ("C" :> "c") @@ ("D" :> "d") @@ ("E" :> "e")
  @@ ("F" :> "f") @@ ("G" :> "g") @@ ("H" :> "h") @@ ("I" :> "i") @@ ("J" :> "j")
  @@ ("K" :> "k") @@ ("L" :> "l") @@ ("M" :> "m") @@ ("N" :> "n") @@ ("O" :> "o")
  @@ ("P" :> "p") @@ ("Q" :> "q") @@ ("R" :> "r") @@ ("S" :> "s") @@ ("T" :> "t")
  @@ ("U" :> "u") @@ ("V" :> "v") @@ ("W" :> "w") @@ ("X" :> "x") @@ ("Y" :> "y")
  @@ ("Z" :> "z")

to_lowercase(s) ==
  [k \in DOMAIN s |-> IF s[k] \in DOMAIN UpperToLower THEN UpperToLower[s[k]] ELSE s[k]]

contains(s, pat) ==
  \E k \in 0..(Len(s) - Len(pat)) : SubSeq(s, k + 1, k + Len(pat)) = pat

ContentTypeName == <<"C","o","n","t","e","n","t","-","T","y","p","e">>
ApplicationJson == <<"a","p","p","l","i","c","a","t","i","o","n","/","j","s","o","n">>

\* ureq::Response::header: first header whose name matches case-insensitively
header(response, name) ==
  LET hits == {k \in DOMAIN response.headers :
                 to_lowercase(response.headers[k][1]) = to_lowercase(name)}
  IN IF hits = {} THEN None
     ELSE Some(response.headers[CHOOSE k \in hits : \A j \in hits : k <= j][2])

\* variant of validate_headers: the value is searched as received
validate_headers_exact(response) ==
  LET content_type == header(response, ContentTypeName)
  IN IF IsSome(content_type)
       THEN contains(Unwrap(content_type), ApplicationJson)
       ELSE FALSE

\* lines 23-30: the header value is lowercased before the search
validate_headers(response) ==
  LET content_type == header(response, ContentTypeName)
  IN IF IsSome(content_type)
       THEN contains(to_lowercase(Unwrap(content_type)), ApplicationJson)
       ELSE FALSE

\* ---- what the network can answer to one GET -----------------------------
Outcomes == {"mock 200", "404", "timeout"}

\* "mock 200" is the mock server of the tests: HTTP 200 with Content-Length only
Answer(o) ==
  CASE o = "mock 200" ->
         [kind |-> "response", code |-> 200, error |-> "",
          headers |-> << << <<"C","o","n","t","e","n","t","-","L","e","n","g","t","h">>,
                            <<"1","3">> >> >>]
    [] o = "404" ->
         [kind |-> "response", code |-> 404, error |-> "",
          headers |-> << << <<"c","o","n","t","e","n","t","-","t","y","p","e">>,
                            <<"t","e","x","t","/","h","t","m","l">> >> >>]
    [] o = "timeout" ->
         [kind |-> "transport", code |-> 0, error |-> "timed out", headers |-> <<>>]

\* Result<u16, String>
Ok(code) == [tag |-> "Ok", code |-> code, err |-> <<>>]
Err(msg) == [tag |-> "Err", code |-> 0, err |-> msg]
is_ok(status) == status.tag = "Ok"

\* variant of Call: every response is Ok, whatever its status code
CallAnyStatusOk(a) ==
  IF a.kind = "response" THEN [ok |-> TRUE, response |-> a, e |-> <<>>]
  ELSE [ok |-> FALSE, response |-> a, e |-> <<a.error>>]

\* agent.get(&url).timeout(timeout).call() when the network answers a.
\* ureq 2.x Request::call: a response with status >= 400 is
\* Err(Error::Status(code, response)), a transport failure Err(Error::Transport)
Call(a) ==
  IF a.kind = "response" /\ a.code < 400
    THEN [ok |-> TRUE, response |-> a, e |-> <<>>]
  ELSE IF a.kind = "response"
    THEN [ok |-> FALSE, response |-> a, e |-> <<"status code", a.code>>]
  ELSE [ok |-> FALSE, response |-> a, e |-> <<a.error>>]

\* lines 46-65: the WebsiteStatus built from what call() returns for the answer a
status_of(u, a) ==
  LET r == Call(a)
  IN IF r.ok
       THEN [url |-> u, status |-> Ok(r.response.code),
             headers_valid |-> validate_headers(r.response)]
       ELSE [url |-> u,
             status |-> Err(<<"Request failed: ", r.e, " for URL ", u>>),
             headers_valid |-> FALSE]

\* website_checker(url, timeout) when the network answers o
website_checker(u, o) == status_of(u, Answer(o))

\* website_checker over the urls and answers of the model, evaluated once
Checked == [u \in URLS, o \in Outcomes |-> website_checker(u, o)]

\* ---- state ---------------------------------------------------------------
VARIABLES
  input,        \* the urls argument (Vec<String>)
  worker_num,   \* argument
  retries,      \* argument
  queue,        \* the VecDeque behind the mutex; entries carry their input index
  locked,       \* the mutex is held
  handles,      \* number of worker threads spawned so far (Len(handles))
  joined,       \* number of handles joined so far
  mpc,          \* dispatcher position: "run" (spawn and join loops), "collect", "returned"
  senders,      \* live Sender clones of the channel
  chan,         \* results sent and not yet received
  results,      \* the Vec being collected from receiver.iter()
  stderr,       \* eprintln! lines
  wpc,          \* worker position
  url,          \* worker local: Option of the popped entry
  result,       \* worker local: Option<WebsiteStatus>
  popped,       \* history: how many times each input index was returned by pop_front
  emptyPops,    \* history: how many times each worker saw pop_front return None
                \* (counted up to 2)
  calls,        \* history: per input index, the number of website_checker calls
  last,         \* history: per input index, outcome and result of the latest call
  afterOk,      \* history: per input index, a call was made after one returned Ok
  emitted,      \* history: per input index, the results sent for it
  argv,         \* main: the command-line arguments after the program name
  summary,      \* main: Option of the counts printed by summarize_results
  probe         \* Option of one answer given to website_checker alone, and its result

vars == <<input, worker_num, retries, queue, locked, handles, joined, mpc, senders,
          chan, results, stderr, wpc, url, result, popped, emptyPops, calls,
          last, afterOk, emitted, argv, summary, probe>>

args == <<input, worker_num, retries, argv, summary, probe>>
mainVars == <<handles, joined, mpc, results>>
hist == <<popped, emptyPops, calls, last, afterOk, emitted>>

\* defaults of main (lines 172-174)
DefaultWorkers == 4
DefaultRetries == 3

Max(a, b) == IF a >= b THEN a ELSE b
Workers == 1..Max(MaxWorkers, DefaultWorkers)
Ids == 1..MaxUrls

\* the url lists given to monitor_websites: n times "a", or the last one "b"
\* instead, so that lists with and without duplicates occur
UrlLists ==
  {[k \in 1..n |-> IF k <= n - d THEN "a" ELSE "b"] : n \in 0..MaxUrls, d \in 0..1}

\* urls.into_iter().collect::<VecDeque<String>>()
NewQueue(urls) == [k \in DOMAIN urls |-> [id |-> k, url |-> urls[k]]]

Init ==
  /\ input \in UrlLists
  /\ worker_num \in 0..MaxWorkers
  /\ retries \in 0..MaxRetries
  /\ queue = NewQueue(input)
  /\ locked = FALSE
  /\ handles = 0
  /\ joined = 0
  /\ mpc = "run"
  /\ senders = 1
  /\ chan = <<>>
  /\ results = <<>>
  /\ stderr = <<>>
  /\ wpc = [w \in Workers |-> "unspawned"]
  /\ url = [w \in Workers |-> None]
  /\ result = [w \in Workers |-> None]
  /\ popped = [k \in Ids |-> 0]
  /\ emptyPops = [w \in Workers |-> 0]
  /\ calls = [k \in Ids |-> 0]
  /\ last = [k \in Ids |-> None]
  /\ afterOk = [k \in Ids |-> FALSE]
  /\ emitted = [k \in Ids |-> <<>>]
  /\ argv = <<>>
  /\ summary = None
  /\ probe = None

\* ---- worker thread (the closure of lines 89-108) -------------------------
\* variant of Lock: the lock is taken whether or not it is held
LockNoMutex(w) ==
  /\ wpc[w] = "pop"
  /\ locked' = TRUE
  /\ wpc' = [wpc EXCEPT ![w] = "locked"]
  /\ UNCHANGED <<args, mainVars, queue, senders, chan, stderr, url, result, hist>>

\* let mut urls = urls.lock().unwrap();
Lock(w) ==
  /\ wpc[w] = "pop"
  /\ ~locked
  /\ locked' = TRUE
  /\ wpc' = [wpc EXCEPT ![w] = "locked"]
  /\ UNCHANGED <<args, mainVars, queue, senders, chan, stderr, url, result, hist>>

\* variant of WhileLet: on None the worker polls the queue again
WhileLetPoll(o) == IF IsSome(o) THEN "checking" ELSE "pop"

\* while let Some(url) = { ... } : the loop body runs on Some, the closure ends on None
WhileLet(o) == IF IsSome(o) THEN "checking" ELSE "finished"

\* variant of pop_front: the front entry is returned and stays queued
pop_front_keep(q) == [value |-> IF q = <<>> THEN None ELSE Some(Head(q)), rest |-> q]

\* VecDeque::pop_front
pop_front(q) ==
  IF q = <<>> THEN [value |-> None, rest |-> q]
  ELSE [value |-> Some(Head(q)), rest |-> Tail(q)]

\* variant of GuardAfterPop: the MutexGuard is a temporary of the while-let
\* scrutinee and lives through the loop body
GuardKeptInBody(o) == IsSome(o)

\* the MutexGuard `urls` is dropped at the end of the block (line 94), before the
\* loop body: the lock is free whatever pop_front returned
GuardAfterPop(o) == FALSE

\* urls.pop_front(), the guard dropped at the end of the block; on Some the loop
\* body is entered; on None the closure returns, which drops its captured Sender clone
PopFront(w) ==
  /\ wpc[w] = "locked"
  /\ LET p == pop_front(queue)
     IN /\ queue' = p.rest
        /\ url' = [url EXCEPT ![w] = p.value]
        /\ wpc' = [wpc EXCEPT ![w] = WhileLet(p.value)]
        /\ senders' = IF WhileLet(p.value) = "finished" THEN senders - 1 ELSE senders
        /\ popped' = IF IsSome(p.value)
                       THEN [popped EXCEPT ![Unwrap(p.value).id] = @ + 1]
                       ELSE popped
        /\ emptyPops' = IF IsSome(p.value) THEN emptyPops
                        ELSE [emptyPops EXCEPT ![w] = IF @ < 2 THEN @ + 1 ELSE @]
  /\ locked' = GuardAfterPop(pop_front(queue).value)
  /\ UNCHANGED <<args, mainVars, chan, stderr, result, calls, last, afterOk, emitted>>

\* variant of RetryRange: for _ in 0..retries
RetryRangeExclusive(r) == 0..(r - 1)

\* for _ in 0..=retries
RetryRange(r) == 0..r

\* variant of Store: a stored result is kept
StoreFirst(old, new) == IF IsSome(old) THEN old ELSE Some(new)

\* result = Some(...)
Store(old, new) == Some(new)

\* variant of Break: the loop never breaks
NeverBreak(res) == FALSE

\* if let Some(WebsiteStatus { status: Ok(_), .. }) = result { break; }
Break(res) == is_ok(res.status)

\* the retry loop for url u with r retries, from pass k on: outs[k + 1] is what
\* the network answers to the call of pass k; st.result is the local variable
\* result, st.trace the calls made, st.pending is set when a call is made that
\* outs holds no answer for
RECURSIVE retry_loop(_, _, _, _, _)
retry_loop(u, r, outs, k, st) ==
  IF k \notin RetryRange(r) THEN st
  ELSE IF k >= Len(outs) THEN [st EXCEPT !.pending = TRUE]
  ELSE LET res == Checked[u, outs[k + 1]]
           st2 == [st EXCEPT !.result = Store(st.result, res),
                             !.trace = Append(st.trace, [outcome |-> outs[k + 1],
                                                         res |-> res])]
       IN IF Break(res) THEN st2 ELSE retry_loop(u, r, outs, k + 1, st2)

\* the answers of the network to the calls for one url
AnswerSeqs == UNION {[1..n -> Outcomes] : n \in 0..(Max(MaxRetries, DefaultRetries) + 1)}

\* let mut result = None; for _ in 0..=retries { ... } run against the answers outs
RunLoop(u, r, outs) ==
  retry_loop(u, r, outs, 0, [result |-> None, trace |-> <<>>, pending |-> FALSE])

\* the runs of the retry loop, over the answers of the network to exactly the
\* calls made; evaluated once
Runs ==
  [u \in URLS, r \in 0..Max(MaxRetries, DefaultRetries) |->
     {RunLoop(u, r, outs) : outs \in
        {x \in AnswerSeqs : LET st == RunLoop(u, r, x)
                            IN ~st.pending /\ Len(st.trace) = Len(x)}}]

\* lines 95-103: the loop touches only the worker's own variables; each call
\* completes at the latest when the timeout expires
CheckWithRetry(w, st) ==
  /\ wpc[w] = "checking"
  /\ LET e == Unwrap(url[w])
         n == Len(st.trace)
     IN /\ result' = [result EXCEPT ![w] = st.result]
        /\ calls' = [calls EXCEPT ![e.id] = @ + n]
        /\ last' = [last EXCEPT ![e.id] = IF n = 0 THEN @ ELSE Some(st.trace[n])]
        /\ afterOk' = [afterOk EXCEPT ![e.id] =
                         @ \/ \E k \in 1..(n - 1) : is_ok(st.trace[k].res.status)]
  /\ wpc' = [wpc EXCEPT ![w] = "send"]
  /\ UNCHANGED <<args, mainVars, queue, locked, senders, chan, stderr, url, popped,
                 emptyPops, emitted>>

\* variant of ReceiverAlive: the Receiver is dropped as soon as it is created
ReceiverDropped == FALSE

\* the Receiver lives from line 76 until monitor_websites returns or unwinds
ReceiverAlive == mpc \in {"run", "collect"}

\* variant of Send: a result is sent only when its status is Ok
SendOnlyOk(w) ==
  /\ wpc[w] = "send"
  /\ IsSome(result[w])
  /\ wpc' = [wpc EXCEPT ![w] = "pop"]
  /\ IF is_ok(Unwrap(result[w]).status)
       THEN /\ chan' = Append(chan, Unwrap(result[w]))
            /\ emitted' = [emitted EXCEPT ![Unwrap(url[w]).id] =
                             Append(@, Unwrap(result[w]))]
       ELSE UNCHANGED <<chan, emitted>>
  /\ result' = [result EXCEPT ![w] = None]
  /\ url' = [url EXCEPT ![w] = None]
  /\ UNCHANGED <<args, mainVars, queue, locked, senders, stderr, popped, emptyPops,
                 calls, last, afterOk>>

\* variant of Send: a failed send panics, as sender.send(..).unwrap() would
SendOrPanic(w) ==
  /\ wpc[w] = "send"
  /\ IF IsSome(result[w]) /\ ReceiverAlive
       THEN /\ wpc' = [wpc EXCEPT ![w] = "pop"]
            /\ senders' = senders
            /\ chan' = Append(chan, Unwrap(result[w]))
            /\ emitted' = [emitted EXCEPT ![Unwrap(url[w]).id] =
                             Append(@, Unwrap(result[w]))]
       ELSE /\ wpc' = [wpc EXCEPT ![w] = "panicked"]
            /\ senders' = senders - 1
            /\ UNCHANGED <<chan, emitted>>
  /\ result' = [result EXCEPT ![w] = None]
  /\ url' = [url EXCEPT ![w] = None]
  /\ UNCHANGED <<args, mainVars, queue, locked, stderr, popped, emptyPops, calls, last,
                 afterOk>>

\* sender.send(result.unwrap()); unwrap of None panics and unwinds the thread,
\* which drops its Sender clone.  result is moved into the channel and url is
\* dropped at the end of the loop body
Send(w) ==
  /\ wpc[w] = "send"
  /\ IF ~IsSome(result[w])
       THEN /\ wpc' = [wpc EXCEPT ![w] = "panicked"]
            /\ senders' = senders - 1
            /\ UNCHANGED <<chan, stderr, emitted>>
       ELSE /\ wpc' = [wpc EXCEPT ![w] = "pop"]
            /\ senders' = senders
            /\ IF ReceiverAlive
                 THEN /\ chan' = Append(chan, Unwrap(result[w]))
                      /\ emitted' = [emitted EXCEPT ![Unwrap(url[w]).id] =
                                       Append(@, Unwrap(result[w]))]
                      /\ stderr' = stderr
                 ELSE /\ stderr' = Append(stderr, "Failed to send result")
                      /\ UNCHANGED <<chan, emitted>>
  /\ result' = [result EXCEPT ![w] = None]
  /\ url' = [url EXCEPT ![w] = None]
  /\ UNCHANGED <<args, mainVars, queue, locked, popped, emptyPops, calls, last, afterOk>>

\* the thread ends and becomes joinable
Terminate(w) ==
  /\ wpc[w] = "finished"
  /\ wpc' = [wpc EXCEPT ![w] = "done"]
  /\ UNCHANGED <<args, mainVars, queue, locked, senders, chan, stderr, url, result, hist>>

\* ---- dispatcher (monitor_websites) --------------------------------------
\* for _ in 0..worker_num { sender.clone(); Arc::clone; thread::spawn; handles.push }
Spawn ==
  /\ mpc = "run"
  /\ handles < worker_num
  /\ handles' = handles + 1
  /\ senders' = senders + 1
  /\ wpc' = [wpc EXCEPT ![handles + 1] = "pop"]
  /\ UNCHANGED <<args, joined, mpc, results, queue, locked, chan, stderr, url, result, hist>>

\* variant of Terminated: join returns without waiting for the thread
TerminatedNoWait(w) == TRUE

\* JoinHandle::join returns once the thread has ended (normally or by panic)
Terminated(w) == wpc[w] \in {"done", "panicked"}

\* variant of Join: the Err of a join is discarded instead of reported
JoinSilent ==
  /\ mpc = "run"
  /\ handles = worker_num
  /\ joined < handles
  /\ Terminated(joined + 1)
  /\ joined' = joined + 1
  /\ UNCHANGED <<args, handles, mpc, results, queue, locked, senders, chan, stderr, wpc,
                 url, result, hist>>

\* for handle in handles { if let Err(e) = handle.join() { eprintln!(...) } }
Join ==
  /\ mpc = "run"
  /\ handles = worker_num
  /\ joined < handles
  /\ Terminated(joined + 1)
  /\ joined' = joined + 1
  /\ stderr' = IF wpc[joined + 1] = "panicked"
                 THEN Append(stderr, "Thread join error")
                 ELSE stderr
  /\ UNCHANGED <<args, handles, mpc, results, queue, locked, senders, chan, wpc, url,
                 result, hist>>

\* variant of DropSender: the dispatcher's Sender is kept while collecting
DropSenderKept ==
  /\ mpc = "run"
  /\ handles = worker_num
  /\ joined = handles
  /\ mpc' = "collect"
  /\ UNCHANGED <<args, handles, joined, results, queue, locked, senders, chan, stderr, wpc,
                 url, result, hist>>

\* variant of DropSender: no join loop, the sender is dropped once all are spawned
DropSenderNoJoin ==
  /\ mpc = "run"
  /\ handles = worker_num
  /\ senders' = senders - 1
  /\ mpc' = "collect"
  /\ UNCHANGED <<args, handles, joined, results, queue, locked, chan, stderr, wpc, url,
                 result, hist>>

\* drop(sender)
DropSender ==
  /\ mpc = "run"
  /\ handles = worker_num
  /\ joined = handles
  /\ senders' = senders - 1
  /\ mpc' = "collect"
  /\ UNCHANGED <<args, handles, joined, results, queue, locked, chan, stderr, wpc, url,
                 result, hist>>

\* receiver.iter().collect(): one recv that yields a value
Recv ==
  /\ mpc = "collect"
  /\ chan # <<>>
  /\ results' = Append(results, Head(chan))
  /\ chan' = Tail(chan)
  /\ UNCHANGED <<args, handles, joined, mpc, queue, locked, senders, stderr, wpc, url,
                 result, hist>>

\* recv on an empty channel with every Sender dropped ends the iterator;
\* monitor_websites returns the collected Vec
EndOfStream ==
  /\ mpc = "collect"
  /\ chan = <<>>
  /\ senders = 0
  /\ mpc' = "returned"
  /\ UNCHANGED <<args, handles, joined, results, queue, locked, senders, chan, stderr,
                 wpc, url, result, hist>>

Worker(w) ==
  \/ Lock(w)
  \/ PopFront(w)
  \/ /\ wpc[w] = "checking"
     /\ \E st \in Runs[Unwrap(url[w]).url, retries] : CheckWithRetry(w, st)
  \/ Send(w)
  \/ Terminate(w)

Dispatcher == Spawn \/ Join \/ DropSender \/ Recv \/ EndOfStream

Next == Dispatcher \/ \E w \in Workers : Worker(w)

Spec == Init /\ [][Next]_vars

\* every thread that can take a step eventually takes one (OS scheduling), and a
\* request in flight completes (the per-attempt timeout)
FairSpec ==
  /\ Spec
  /\ WF_vars(Dispatcher)
  /\ \A w \in Workers : WF_vars(Worker(w))

\* ---- faults: a panic inside a worker, a failure to spawn -----------------
Panicked == {w \in Workers : wpc[w] = "panicked"}

\* a panic raised under the loop body (inside website_checker at line 99, or by
\* eprintln! at line 105) unwinds the thread: its locals and its Sender clone are
\* dropped.  Nothing between lock() and the end of the block at lines 92-94 can
\* panic, so the mutex is never held by a panicking thread and is never poisoned.
Crash(w) ==
  /\ wpc[w] \in {"checking", "send"}
  /\ Cardinality(Panicked) < MaxCrashes
  /\ wpc' = [wpc EXCEPT ![w] = "panicked"]
  /\ senders' = senders - 1
  /\ url' = [url EXCEPT ![w] = None]
  /\ result' = [result EXCEPT ![w] = None]
  /\ UNCHANGED <<args, mainVars, queue, locked, chan, stderr, hist>>

\* thread::spawn panics when the OS cannot create a thread (line 89):
\* monitor_websites unwinds, which drops the handles (the threads already
\* started are detached), the Receiver and the original Sender
SpawnFails ==
  /\ mpc = "run"
  /\ handles < worker_num
  /\ mpc' = "unwound"
  /\ senders' = senders - 1
  /\ UNCHANGED <<args, handles, joined, results, queue, locked, chan, stderr, wpc, url,
                 result, hist>>

\* monitor_websites with worker panics
FaultNext == Next \/ \E w \in Workers : Crash(w)

FaultSpec == Init /\ [][FaultNext]_vars

\* monitor_websites with a failing spawn
DetachNext == Next \/ SpawnFails

DetachSpec == Init /\ [][DetachNext]_vars

\* ---- main (lines 166-203) ------------------------------------------------
DigitValue ==
  ("0" :> 0) @@ ("1" :> 1) @@ ("2" :> 2) @@ ("3" :> 3) @@ ("4" :> 4)
  @@ ("5" :> 5) @@ ("6" :> 6) @@ ("7" :> 7) @@ ("8" :> 8) @@ ("9" :> 9)

RECURSIVE decimal(_)
decimal(d) ==
  IF d = <<>> THEN 0
  ELSE 10 * decimal(SubSeq(d, 1, Len(d) - 1)) + DigitValue[d[Len(d)]]

\* str::parse::<usize>: an optional '+', then one or more decimal digits
\* (the argument strings of the model stay far below usize::MAX)
parse_usize(s) ==
  LET d == IF s # <<>> /\ s[1] = "+" THEN Tail(s) ELSE s
  IN IF d = <<>> \/ \E k \in DOMAIN d : d[k] \notin DOMAIN DigitValue
       THEN None
       ELSE Some(decimal(d))

\* args.get(i), args[0] being the program name
get(v, i) == IF i <= Len(v) THEN Some(v[i]) ELSE None
and_then_parse(o) == IF IsSome(o) THEN parse_usize(Unwrap(o)) ELSE None
unwrap_or(o, d) == IF IsSome(o) THEN Unwrap(o) ELSE d

\* line 172
ParseWorkerNum(v) == unwrap_or(and_then_parse(get(v, 1)), DefaultWorkers)
\* line 174
ParseRetries(v) == unwrap_or(and_then_parse(get(v, 3)), DefaultRetries)

\* the command lines of the model: no argument, a worker count, or a worker
\* count, a timeout and a retry count
WorkerArgs == {<<"0">>, <<"1">>, <<"+", "2">>, <<"x">>}
RetryArgs == {<<"0">>, <<"-", "1">>}
ArgLists ==
  {<<>>} \cup {<<a>> : a \in WorkerArgs}
         \cup {<<a, <<"5">>, r>> : a \in WorkerArgs, r \in RetryArgs}

\* the lines of urls.txt: a url or a blank line
Lines == {"a", " "}
FileLists == UNION {[1..n -> Lines] : n \in 0..MaxUrls}

\* l.trim() of a line of the model
trim(l) == IF l = " " THEN "" ELSE l
NotBlank(l) == trim(l) # ""
\* read_from_file: the lines that are not blank (the file exists and is readable)
read_from_file(lines) == SelectSeq(lines, NotBlank)

MainInit ==
  /\ argv \in ArgLists
  /\ input \in FileLists
  /\ worker_num = 0
  /\ retries = 0
  /\ queue = <<>>
  /\ locked = FALSE
  /\ handles = 0
  /\ joined = 0
  /\ mpc = "main"
  /\ senders = 0
  /\ chan = <<>>
  /\ results = <<>>
  /\ stderr = <<>>
  /\ wpc = [w \in Workers |-> "unspawned"]
  /\ url = [w \in Workers |-> None]
  /\ result = [w \in Workers |-> None]
  /\ popped = [k \in Ids |-> 0]
  /\ emptyPops = [w \in Workers |-> 0]
  /\ calls = [k \in Ids |-> 0]
  /\ last = [k \in Ids |-> None]
  /\ afterOk = [k \in Ids |-> FALSE]
  /\ emitted = [k \in Ids |-> <<>>]
  /\ summary = None
  /\ probe = None

\* lines 168-186: parse the arguments, read the file, return when it holds no
\* url, otherwise call monitor_websites (which creates the channel and the queue)
MainStart ==
  /\ mpc = "main"
  /\ worker_num' = ParseWorkerNum(argv)
  /\ retries' = ParseRetries(argv)
  /\ LET urls == read_from_file(input)
     IN /\ input' = urls
        /\ IF urls = <<>>
             THEN /\ mpc' = "exit"
                  /\ stderr' = stderr \o <<"Warning: No valid URLs found in the file.",
                                           "No URLs found in the file.">>
                  /\ UNCHANGED <<queue, senders>>
             ELSE /\ mpc' = "run"
                  /\ queue' = NewQueue(urls)
                  /\ senders' = 1
                  /\ stderr' = stderr
  /\ UNCHANGED <<argv, summary, probe, handles, joined, results, locked, chan, wpc, url, result,
                 hist>>

\* Duration / u32 at line 156 panics when the divisor is 0
DivisionPanics(total) == total = 0

\* lines 187-192: summarize_results(&results)
Summarize ==
  /\ mpc = "returned"
  /\ LET total == Len(results)
         successes == Cardinality({k \in DOMAIN results : is_ok(results[k].status)})
         failures == total - successes
     IN IF DivisionPanics(total)
          THEN /\ mpc' = "main panicked"
               /\ summary' = None
          ELSE /\ mpc' = "summarized"
               /\ summary' = Some([total |-> total, successes |-> successes,
                                   failures |-> failures])
  /\ UNCHANGED <<input, worker_num, retries, argv, probe, handles, joined, results, queue, locked,
                 senders, chan, stderr, wpc, url, result, hist>>

MainNext == MainStart \/ Next \/ Summarize

MainSpec == MainInit /\ [][MainNext]_vars

\* ---- website_checker alone, over responses with arbitrary headers --------
HeaderNames ==
  {<<"C","o","n","t","e","n","t","-","T","y","p","e">>,
   <<"c","o","n","t","e","n","t","-","t","y","p","e">>,
   <<"C","O","N","T","E","N","T","-","T","Y","P","E">>,
   <<"C","o","n","t","e","n","t","-","L","e","n","g","t","h">>,
   <<"X","-","C","o","n","t","e","n","t","-","T","y","p","e">>}
HeaderValues ==
  {<<"a","p","p","l","i","c","a","t","i","o","n","/","j","s","o","n">>,
   <<"a","p","p","l","i","c","a","t","i","o","n","/","j","s","o","n",";"," ","c","h","a","r","s","e","t","=","u","t","f","-","8">>,
   <<"t","e","x","t","/","h","t","m","l">>,
   <<"A","p","p","l","i","c","a","t","i","o","n","/","J","S","O","N">>,
   <<"a","p","p","l","i","c","a","t","i","o","n","/","j","s","o">>,
   <<"1","3">>}
HeaderLists ==
  UNION {[1..n -> HeaderNames \X HeaderValues] : n \in 0..MaxHeaders}
ProbeAnswers ==
  {[kind |-> "response", code |-> c, error |-> "", headers |-> h] :
     c \in {200, 404}, h \in HeaderLists}

HeaderInit ==
  /\ probe \in {Some([answer |-> a, result |-> None]) : a \in ProbeAnswers}
  /\ input = <<>>
  /\ worker_num = 0
  /\ retries = 0
  /\ queue = <<>>
  /\ locked = FALSE
  /\ handles = 0
  /\ joined = 0
  /\ mpc = "probe"
  /\ senders = 0
  /\ chan = <<>>
  /\ results = <<>>
  /\ stderr = <<>>
  /\ wpc = [w \in Workers |-> "unspawned"]
  /\ url = [w \in Workers |-> None]
  /\ result = [w \in Workers |-> None]
  /\ popped = [k \in Ids |-> 0]
  /\ emptyPops = [w \in Workers |-> 0]
  /\ calls = [k \in Ids |-> 0]
  /\ last = [k \in Ids |-> None]
  /\ afterOk = [k \in Ids |-> FALSE]
  /\ emitted = [k \in Ids |-> <<>>]
  /\ argv = <<>>
  /\ summary = None

\* website_checker("a", timeout) on the probed answer
CheckProbe ==
  /\ mpc = "probe"
  /\ IsSome(probe)
  /\ ~IsSome(Unwrap(probe).result)
  /\ probe' = Some([Unwrap(probe) EXCEPT !.result = Some(status_of("a", Unwrap(probe).answer))])
  /\ UNCHANGED <<input, worker_num, retries, argv, summary, mainVars, queue, locked, senders,
                 chan, stderr, wpc, url, result, hist>>

HeaderSpec == HeaderInit /\ [][CheckProbe]_vars

\* ---- properties -----------------------------------------------------------
Count(seq, x) == Cardinality({k \in DOMAIN seq : seq[k] = x})
UrlsOf(rs) == [k \in DOMAIN rs |-> rs[k].url]
Tasks == DOMAIN input
Running == 1..worker_num
Held(w) == Unwrap(url[w]).id
LastRes(id) == Unwrap(last[id]).res
LastOutcome(id) == Unwrap(last[id]).outcome
\* every website_checker call made for the entry failed
AllFailed(id) == calls[id] > 0 /\ ~is_ok(LastRes(id).status) /\ ~afterOk[id]

\* C1 (completeness): when monitor_websites returns, with worker_num >= 1, it
\* returns exactly Len(input) results, one sent for each queue entry, and every url
\* occurs among the results as often as in the input.
C1_Completeness ==
  (mpc = "returned" /\ worker_num >= 1) =>
     /\ Len(results) = Len(input)
     /\ \A id \in Tasks : Len(emitted[id]) = 1
     /\ \A u \in URLS : Count(UrlsOf(results), u) = Count(input, u)

\* two workers, a duplicated url, a retried check, and the call has returned
C1_Witness ==
  /\ mpc = "returned"
  /\ worker_num >= 2
  /\ Len(input) = 2 /\ input[1] = input[2]
  /\ \E id \in Tasks : calls[id] >= 2
  /\ Len(results) = 2

\* C2 (exactly-once dequeue): every queue entry is either still queued or was
\* returned by pop_front exactly once; at most one worker is inside the locked
\* block; and every step leaves the queue unchanged or removes its front entry.
C2_ExactlyOnceDequeue ==
  /\ [](\A id \in Tasks :
          popped[id] + Cardinality({k \in DOMAIN queue : queue[k].id = id}) = 1)
  /\ [](Cardinality({w \in Workers : wpc[w] = "locked"}) <= 1)
  /\ [][queue' = queue \/ (queue # <<>> /\ queue' = Tail(queue))]_vars

\* two workers hold two different entries at the same time
C2_Witness ==
  \E v, w \in Workers :
     /\ v # w
     /\ wpc[v] = "checking" /\ wpc[w] = "checking"
     /\ Held(v) # Held(w)
     /\ queue = <<>>

\* C3 (retry bound): no entry gets more than retries + 1 website_checker calls,
\* and an entry whose calls all failed got exactly retries + 1 of them.
C3_RetryBound ==
  \A id \in Tasks :
     /\ calls[id] <= retries + 1
     /\ AllFailed(id) => calls[id] = retries + 1

\* an entry failed on every one of its retries + 1 >= 2 calls and was sent
C3_Witness ==
  \E id \in Tasks :
     /\ retries >= 1
     /\ AllFailed(id)
     /\ calls[id] = retries + 1
     /\ emitted[id] # <<>>

\* C4 (early success): no call is made for an entry after one of its calls
\* returned Ok, and when the loop ended on an Ok that Ok is the result the worker
\* holds and sends; so one failure followed by a success makes exactly 2 calls.
C4_EarlySuccess ==
  \A id \in Tasks :
     /\ ~afterOk[id]
     /\ (calls[id] > 0 /\ is_ok(LastRes(id).status)) =>
          /\ \A w \in Workers :
               (wpc[w] = "send" /\ Held(w) = id) => result[w] = Some(LastRes(id))
          /\ \A k \in DOMAIN emitted[id] : emitted[id][k] = LastRes(id)

\* an entry failed once, succeeded on its second call, and the success was sent
C4_Witness ==
  \E id \in Tasks :
     /\ retries >= 1
     /\ calls[id] = 2
     /\ is_ok(LastRes(id).status)
     /\ emitted[id] = <<LastRes(id)>>

\* C5 (last failure wins): when every call for an entry failed, the result sent
\* for it is the result of the last call.
C5_LastFailureEmitted ==
  \A id \in Tasks :
     (AllFailed(id) /\ emitted[id] # <<>>) => emitted[id] = <<LastRes(id)>>

\* an entry failed retries + 1 >= 2 times and its last failure was sent
C5_Witness ==
  \E id \in Tasks :
     /\ retries >= 1
     /\ calls[id] = retries + 1
     /\ AllFailed(id)
     /\ LastOutcome(id) = "timeout"
     /\ emitted[id] = <<LastRes(id)>>

C7_JoinBarrier ==
  /\ [](mpc = "returned" =>
          /\ handles = worker_num /\ joined = worker_num
          /\ \A w \in Running : wpc[w] \in {"done", "panicked"}
          /\ \A w \in Workers : url[w] = None /\ result[w] = None
          /\ chan = <<>>)
  /\ [][mpc # "returned"]_vars

\* the call returned the results of two workers that both terminated
C7_Witness ==
  /\ mpc = "returned"
  /\ worker_num >= 2
  /\ \A w \in Running : wpc[w] = "done"
  /\ Len(results) >= 2

EmittedCount == Cardinality({p \in Tasks \X (1..MaxUrls) : p[2] <= Len(emitted[p[1]])})

\* C8 (end-of-stream after the workers): every Sender is dropped only when every
\* worker thread has terminated, and when the collection has ended every result
\* sent by a worker has been received.
C8_EndOfStreamAfterWorkers ==
  /\ senders = 0 =>
       /\ handles = worker_num
       /\ \A w \in Running : wpc[w] \in {"done", "panicked"}
  /\ mpc = "returned" => (chan = <<>> /\ Len(results) = EmittedCount)
  /\ Len(chan) + Len(results) = EmittedCount

\* every Sender is dropped while sent results still wait in the channel
C8_Witness ==
  /\ senders = 0
  /\ mpc = "collect"
  /\ worker_num >= 2
  /\ Len(chan) >= 2

AllJoined ==
  /\ handles = worker_num
  /\ joined = worker_num
  /\ \A w \in Running : wpc[w] = "done"

\* C9 (idle worker termination): under fair scheduling every spawned worker
\* terminates and the join loop completes, for good; no worker sees pop_front
\* return None more than once, and a terminated worker saw it exactly once.
C9_IdleWorkerTermination ==
  /\ [](\A w \in Workers :
          /\ emptyPops[w] <= 1
          /\ wpc[w] \in {"finished", "done"} => emptyPops[w] = 1)
  /\ <>[]AllJoined

\* more workers than urls: all have terminated and are joined
C9_Witness ==
  /\ worker_num > Len(input)
  /\ Len(input) >= 1
  /\ AllJoined
  /\ \A w \in Running : emptyPops[w] = 1

\* C10 (empty input): with an empty url list no website_checker call is made
\* and no worker ever holds an entry, and under fair scheduling the call returns,
\* with an empty result.
C10_EmptyInput ==
  /\ [](input = <<>> =>
          /\ \A id \in Ids : calls[id] = 0
          /\ \A w \in Workers : wpc[w] \notin {"checking", "send"}
          /\ results = <<>>)
  /\ (input = <<>>) ~> (mpc = "returned" /\ results = <<>>)

\* the call returned for an empty list given to two workers
C10_Witness ==
  /\ input = <<>>
  /\ worker_num >= 2
  /\ mpc = "returned"
  /\ results = <<>>
  /\ \A w \in Running : wpc[w] = "done"

\* C11: worker crash isolation.  Once a worker has panicked, no other worker is
\* hung: every worker still running can take a step, or waits for the queue lock
\* whose holder can; the dispatcher is not stuck once no worker runs; and when
\* monitor_websites returns it has joined every worker, has reported one join
\* error per panicked worker, returns every result that was sent, and, if some
\* worker did not panic, the queue was drained.
Alive(w) == wpc[w] \notin {"unspawned", "done", "panicked"}
C11_CrashIsolation ==
  Panicked # {} =>
    /\ \A w \in Workers :
         Alive(w) => \/ ENABLED Worker(w)
                     \/ /\ wpc[w] = "pop"
                        /\ \E v \in Workers : wpc[v] = "locked" /\ ENABLED Worker(v)
    /\ (mpc \in {"run", "collect"} /\ handles = worker_num /\ \A w \in Workers : ~Alive(w))
         => ENABLED Dispatcher
    /\ mpc = "returned" =>
         /\ joined = worker_num
         /\ Count(stderr, "Thread join error") = Cardinality(Panicked)
         /\ Len(results) = EmittedCount
         /\ \A k \in Tasks : \A j \in DOMAIN emitted[k] : Count(results, emitted[k][j]) >= 1
         /\ (Running \ Panicked # {} => queue = <<>>)
C11_Witness ==
  /\ mpc = "returned"
  /\ Len(input) = 2
  /\ Cardinality(Panicked) = 1
  /\ Cardinality(Running \ Panicked) = 1
  /\ Len(results) = 1
  /\ Count(stderr, "Thread join error") = 1

\* C12: a worker that panics after it dequeued a url and before it sent the
\* result does not lose that work: when monitor_websites returns, every input
\* entry that was dequeued has a result (a Success, or the Failure reporting it)
\* in the returned list.  The join error line names no url.
C12_OwnedWorkNotLost ==
  mpc = "returned" =>
    \A k \in Tasks : popped[k] > 0 =>
      /\ emitted[k] # <<>>
      /\ \E j \in DOMAIN results : results[j].url = input[k]

\* C13: a failed send is not fatal.  When the receiving side is gone (the
\* dispatcher unwound), no worker panics or hangs: each url that was dequeued and
\* is no longer held by a worker was either sent or has its own "Failed to send
\* result" line, and once the started workers have ended the queue is empty, so
\* the workers went on until pop_front returned None.
Owned == {Held(w) : w \in {v \in Workers : IsSome(url[v])}}
Unsent == {k \in Tasks : popped[k] > 0 /\ emitted[k] = <<>> /\ k \notin Owned}
C13_SendFailureNonFatal ==
  /\ Panicked = {}
  /\ Count(stderr, "Failed to send result") = Cardinality(Unsent)
  /\ mpc = "unwound" =>
       /\ \A w \in Workers :
            Alive(w) => \/ ENABLED Worker(w)
                        \/ /\ wpc[w] = "pop"
                           /\ \E v \in Workers : wpc[v] = "locked" /\ ENABLED Worker(v)
       /\ (handles >= 1 /\ \A w \in Workers : ~Alive(w)) => queue = <<>>
C13_Witness ==
  /\ mpc = "unwound"
  /\ handles = 1
  /\ wpc[1] = "done"
  /\ queue = <<>>
  /\ Len(input) = 2
  /\ Count(stderr, "Failed to send result") = 2

\* C14: main calls monitor_websites with worker_num >= 1 for every command line
\* (a 0, a missing or an unparsable first argument included).
C14_WorkerNumClamped == mpc \notin {"main", "exit"} => worker_num >= 1

ProbeDone == mpc = "probe" /\ IsSome(probe) /\ IsSome(Unwrap(probe).result)
ProbeHeaders == Unwrap(probe).answer.headers
ProbeCode == Unwrap(probe).answer.code
ProbeValid == Unwrap(Unwrap(probe).result).headers_valid
ContentTypes ==
  {k \in DOMAIN ProbeHeaders : to_lowercase(ProbeHeaders[k][1]) = to_lowercase(ContentTypeName)}
\* the pattern occurs in v when upper and lower case letters are identified
ContainsIgnoringCase(v, pat) ==
  \E k \in 0..(Len(v) - Len(pat)) :
    \A i \in 1..Len(pat) :
      \/ v[k + i] = pat[i]
      \/ v[k + i] \in DOMAIN UpperToLower /\ UpperToLower[v[k + i]] = pat[i]

InBlock == {w \in Workers : wpc[w] = "locked"}
C16_LockHeldOnlyForPop ==
  /\ locked <=> InBlock # {}
  /\ Cardinality(InBlock) <= 1
  /\ \A w \in Workers : wpc[w] \in {"checking", "send"} => w \notin InBlock /\ IsSome(url[w])
C16_Witness ==
  /\ wpc[1] = "checking"
  /\ wpc[2] = "checking"
  /\ ~locked

\* C17: deadlock freedom without crashes.  Until monitor_websites has returned
\* some thread can take a step; a worker at the send can always send; and
\* while the dispatcher waits in a join, the worker it waits for can step or
\* waits for the lock, whose holder can step.
CanProgress(w) ==
  \/ ENABLED Worker(w)
  \/ /\ wpc[w] = "pop"
     /\ \E v \in Workers : wpc[v] = "locked" /\ ENABLED Worker(v)
C17_DeadlockFree ==
  /\ mpc # "returned" => ENABLED Next
  /\ \A w \in Workers : wpc[w] = "send" => ENABLED Send(w)
  /\ \A w \in Workers : Alive(w) => CanProgress(w)
  /\ (\A w \in Workers : ~Alive(w)) /\ mpc # "returned" => ENABLED Dispatcher
C17_Witness ==
  /\ mpc = "run"
  /\ handles = worker_num
  /\ joined = 0
  /\ wpc[1] = "pop"
  /\ wpc[2] = "locked"
  /\ locked
  /\ ~ENABLED Dispatcher

\* C18: whenever a worker is at the send, its stored result is Some, for every
\* retry count from 0 on; no worker ever panics on the unwrap.
C18_ResultPresentAtSend ==
  /\ \A w \in Workers : wpc[w] = "send" => IsSome(result[w])
  /\ Panicked = {}
C18_Witness ==
  /\ retries = 0
  /\ wpc[1] = "send"
  /\ IsSome(result[1])
  /\ ~is_ok(Unwrap(result[1]).status)

\* C19: main never calls summarize_results with an empty result set: whenever
\* the url list read by main is not empty, monitor_websites returns at least one
\* result, and the division at line 156 never panics.
C19_SummarizeNonEmpty ==
  /\ (mpc = "returned" /\ input # <<>>) => results # <<>>
  /\ mpc # "main panicked"

\* C20: the Receiver is alive whenever a worker runs, so no send fails and no
\* "Failed to send result" line is ever printed; the results are consumed only
\* after every worker is joined: until then they all sit in the channel.
C20_ReceiverOutlivesWorkers ==
  /\ (\E w \in Workers : Alive(w)) => ReceiverAlive /\ mpc = "run"
  /\ Count(stderr, "Failed to send result") = 0
  /\ mpc = "run" => results = <<>> /\ Len(chan) = EmittedCount
  /\ mpc # "run" => joined = worker_num /\ \A w \in Running : Terminated(w)
C20_Witness ==
  /\ mpc = "run"
  /\ Len(chan) = 2
  /\ joined = 0
  /\ \E w \in Workers : wpc[w] = "finished"

====
